---- MODULE Spec2Model ----
(***************************************************************************)
(* Batch download queue of the Downloader component (src/App.tsx,          *)
(* lines 549-913) and the acquisition service it calls                     *)
(* (src/services/mockService.ts).                                          *)
(*                                                                         *)
(* Granularity.  One action is one event-loop task: a handler invocation,  *)
(* or the settling of one service call together with the promise           *)
(* continuations (microtasks) that run before the next task.  So the step  *)
(* in which an item worker finishes also contains the scheduler's reaction *)
(* to it (pool.splice, Promise.race resolving, the for loop admitting the  *)
(* next item, Promise.all resolving).                                      *)
(* A handler reads the component state of the latest render; an async      *)
(* handler keeps, after an await, the values it captured when called.      *)
(* Strings that the code inspects (batchInput) are sequences of            *)
(* one-character strings.                                                  *)
(***************************************************************************)
EXTENDS Integers, Sequences, FiniteSets, TLC

VARIABLES
    batchQueue,       \* useState<BatchItem[]>            App.tsx:583
    processingBatch,  \* useState(false)                  App.tsx:584
    completedCount,   \* useState(0)                      App.tsx:585
    loadingPlaylist,  \* useState(false)                  App.tsx:587
    downloadType,     \* useState(DownloadType.Video)     App.tsx:590
    tauri,            \* isTauri(): fixed by the environment the app runs in
    itemsToProcess,   \* ids of processBatchQueue's first parameter (current run)
    pendingItems,     \* ids of processBatchQueue's pendingItems, in order
    nextIdx,          \* position of the for loop over pendingItems (1-based)
    pool,             \* running downloadItem calls: id -> [pc, i]
    imports,          \* importPlaylist calls awaiting getPlaylistInfo
    nextId,           \* next fresh item id (Math.random ids, assumed distinct)
    starts,           \* number of downloadItem calls of all runs so far
    importCalls,      \* number of getPlaylistInfo calls so far
    origin,           \* the handler that called processBatchQueue (current run)
    submitNextId,     \* nextId when processBatchQueue was called (current run)
    lastOp            \* the task that produced this state, and the toast it raised

vars == <<batchQueue, processingBatch, completedCount, loadingPlaylist,
          downloadType, tauri, itemsToProcess, pendingItems, nextIdx, pool,
          imports, nextId, starts, importCalls, origin, submitNextId, lastOp>>


-----------------------------------------------------------------------------
(* Program constants and bounds *)

CONCURRENCY == 3

\* Spec: ids created and downloadItem calls made.
MaxItems == 4
MaxStarts == 4

\* WebSpec: the same, and getPlaylistInfo calls made.
WebMaxItems == 5
WebMaxStarts == 4
WebMaxImports == 1

\* GuardSpec
GuardMaxItems == 2
GuardMaxStarts == 2
GuardMaxImports == 1

\* ScenarioSpec
ScenarioMaxItems == 4
ScenarioMaxStarts == 6

\* AddSpec
AddMaxItems == 4
AddMaxStarts == 3

\* ReimportSpec
ReimportMaxItems == 3
ReimportMaxStarts == 4
ReimportMaxImports == 2

Undefined == "undefined"
InfoTitle == "InfoTitle"
PlaylistTitle == "PlaylistTitle"
ErrorMessage == "error.message"

ProgressStart == 10
ProgressLoopFirst == 20
ProgressLoopLast == 90
ProgressLoopStep == 10
ProgressDone == 100

-----------------------------------------------------------------------------
(* String helpers: String.prototype.trim / split / includes *)

IsSpace(c) == c \in {" ", "\n"}

RECURSIVE TrimLeft(_)
TrimLeft(s) ==
    IF s = <<>> THEN <<>>
    ELSE IF IsSpace(Head(s)) THEN TrimLeft(Tail(s)) ELSE s

RECURSIVE TrimRight(_)
TrimRight(s) ==
    IF s = <<>> THEN <<>>
    ELSE IF IsSpace(s[Len(s)]) THEN TrimRight(SubSeq(s, 1, Len(s) - 1)) ELSE s

Trim(s) == TrimRight(TrimLeft(s))

RECURSIVE SplitLines(_)
SplitLines(s) ==
    IF \E k \in 1..Len(s) : s[k] = "\n"
    THEN LET k == CHOOSE j \in 1..Len(s) :
                      s[j] = "\n" /\ \A h \in 1..(j - 1) : s[h] # "\n"
         IN  <<SubSeq(s, 1, k - 1)>> \o SplitLines(SubSeq(s, k + 1, Len(s)))
    ELSE <<s>>

Includes(s, sub) ==
    \E k \in 0..(Len(s) - Len(sub)) : SubSeq(s, k + 1, k + Len(sub)) = sub

NonBlank(u) == Len(Trim(u)) > 0

-----------------------------------------------------------------------------
(* Queue helpers: the prev.map(item => item.id === itemId ? {...} : item) updates *)

NewItem(id, url, title, type) ==
    [id |-> id, url |-> url, status |-> "pending", title |-> title,
     progress |-> 0, errorMsg |-> Undefined, type |-> type]

SetStatus(q, id, s) ==
    [k \in DOMAIN q |-> IF q[k].id = id THEN [q[k] EXCEPT !.status = s] ELSE q[k]]

SetTitle(q, id, t) ==
    [k \in DOMAIN q |-> IF q[k].id = id THEN [q[k] EXCEPT !.title = t] ELSE q[k]]

\* A progress update that is not restricted to the item with the given id.
SetProgressAll(q, id, p) ==
    [k \in DOMAIN q |-> [q[k] EXCEPT !.progress = p]]

SetProgress(q, id, p) ==
    [k \in DOMAIN q |-> IF q[k].id = id THEN [q[k] EXCEPT !.progress = p] ELSE q[k]]

SetCompleted(q, id) ==
    [k \in DOMAIN q |-> IF q[k].id = id
                        THEN [q[k] EXCEPT !.status = "completed", !.progress = ProgressDone]
                        ELSE q[k]]

SetError(q, id, msg) ==
    [k \in DOMAIN q |-> IF q[k].id = id
                        THEN [q[k] EXCEPT !.status = "error", !.errorMsg = msg]
                        ELSE q[k]]

QueueIds(q) == {q[k].id : k \in DOMAIN q}

IdsWithStatus(q, s) == {q[k].id : k \in {j \in DOMAIN q : q[j].status = s}}

ItemOf(q, id) == q[CHOOSE k \in DOMAIN q : q[k].id = id]

IdSeq(q) == [k \in DOMAIN q |-> q[k].id]

Op(name, toast, id) == [op |-> name, toast |-> toast, id |-> id, ignored |-> FALSE]

-----------------------------------------------------------------------------
(* processBatchQueue: reset, admission loop, item workers *)

CountCompleted(q) == Cardinality({k \in DOMAIN q : q[k].status = "completed"})

IsPending(item) == item.status = "pending"

ResetTargets(fullQueue, targets) ==
    [k \in DOMAIN fullQueue |->
        IF fullQueue[k].id \in targets
        THEN [fullQueue[k] EXCEPT !.status = "pending", !.progress = 0,
                                  !.errorMsg = Undefined]
        ELSE fullQueue[k]]

\* The pending items taken from the end of the queue backwards.
PendingOfReversed(updatedQueue) ==
    LET pend == IdSeq(SelectSeq(updatedQueue, IsPending))
    IN  [k \in DOMAIN pend |-> pend[Len(pend) + 1 - k]]

PendingOf(updatedQueue) == IdSeq(SelectSeq(updatedQueue, IsPending))

NoWorkers == [id \in {} |-> [pc |-> "getVideoInfo", i |-> 0]]

StartWorker(w, id) ==
    [j \in DOMAIN w \cup {id} |->
        IF j = id THEN [pc |-> "getVideoInfo", i |-> 0] ELSE w[j]]

RemoveWorker(w, id) == [j \in DOMAIN w \ {id} |-> w[j]]

\* The for loop of processBatchQueue from position idx up to its next
\* "await Promise.race(pool)" (or its end).  Each iteration starts
\* downloadItem, whose first statement marks the item as processing.
RECURSIVE AdmitLoop(_, _, _, _)
AdmitLoop(q, w, idx, pend) ==
    IF idx > Len(pend)
    THEN [q |-> q, pool |-> w, idx |-> idx]
    ELSE LET q2 == SetStatus(q, pend[idx], "processing")
             w2 == StartWorker(w, pend[idx])
         IN  IF Cardinality(DOMAIN w2) >= CONCURRENCY
             THEN [q |-> q2, pool |-> w2, idx |-> idx + 1]
             ELSE AdmitLoop(q2, w2, idx + 1, pend)

\* Promise.all(pool) has resolved: the loop is over and no worker is running.
RunOver(r, pend) == r.idx > Len(pend) /\ DOMAIN r.pool = {}

ProcessBatchQueue(targets, fullQueue, name, arg) ==
    LET updatedQueue == ResetTargets(fullQueue, targets)
        pend == PendingOf(updatedQueue)
        r == AdmitLoop(updatedQueue, NoWorkers, 1, pend)
    IN  /\ processingBatch' = ~RunOver(r, pend)
        /\ completedCount' = CountCompleted(fullQueue)
        /\ batchQueue' = r.q
        /\ itemsToProcess' = targets
        /\ pendingItems' = pend
        /\ nextIdx' = r.idx
        /\ pool' = r.pool
        /\ starts' = starts + Len(pend)
        /\ origin' = name
        /\ submitNextId' = nextId
        /\ lastOp' = Op(name, "none", arg)
        /\ UNCHANGED <<loadingPlaylist, downloadType, tauri, imports, nextId,
                       importCalls>>

\* A handler that returned at its guard: nothing but the record of the call.
Ignored(name, toast) ==
    /\ lastOp' = [op |-> name, toast |-> toast, id |-> 0, ignored |-> TRUE]
    /\ UNCHANGED <<batchQueue, processingBatch, completedCount, loadingPlaylist,
                   downloadType, tauri, itemsToProcess, pendingItems, nextIdx,
                   pool, imports, nextId, starts, importCalls, origin, submitNextId>>

\* Settle as it would be if a failed item ended the admission of the rest
\* (a rejected downloadItem promise stopping the for loop).
SettleAborting(id, q, count, toast) ==
    LET r == IF toast = "error"
             THEN [q |-> q, pool |-> RemoveWorker(pool, id), idx |-> nextIdx]
             ELSE AdmitLoop(q, RemoveWorker(pool, id), nextIdx, pendingItems)
    IN  /\ batchQueue' = r.q
        /\ pool' = r.pool
        /\ nextIdx' = r.idx
        /\ completedCount' = count
        /\ processingBatch' = IF RunOver(r, pendingItems) THEN FALSE
                              ELSE processingBatch
        /\ lastOp' = Op("downloadItem", toast, 0)
        /\ UNCHANGED <<loadingPlaylist, downloadType, tauri, itemsToProcess,
                       pendingItems, imports, nextId, starts, importCalls, origin, submitNextId>>

\* Settle as it would be if the scheduler admitted items in batches, waiting
\* for every running worker (Promise.all in place of Promise.race).
SettleBatchwise(id, q, count, toast) ==
    LET rest == RemoveWorker(pool, id)
        r == IF DOMAIN rest = {}
             THEN AdmitLoop(q, rest, nextIdx, pendingItems)
             ELSE [q |-> q, pool |-> rest, idx |-> nextIdx]
    IN  /\ batchQueue' = r.q
        /\ pool' = r.pool
        /\ nextIdx' = r.idx
        /\ completedCount' = count
        /\ processingBatch' = IF RunOver(r, pendingItems) THEN FALSE
                              ELSE processingBatch
        /\ lastOp' = Op("downloadItem", toast, 0)
        /\ UNCHANGED <<loadingPlaylist, downloadType, tauri, itemsToProcess,
                       pendingItems, imports, nextId, starts, importCalls, origin,
                       submitNextId>>

\* downloadItem(id) returned (its promise settled): pool.splice, then the
\* scheduler continues from its await.
Settle(id, q, count, toast) ==
    LET r == AdmitLoop(q, RemoveWorker(pool, id), nextIdx, pendingItems)
    IN  /\ batchQueue' = r.q
        /\ pool' = r.pool
        /\ nextIdx' = r.idx
        /\ completedCount' = count
        /\ processingBatch' = IF RunOver(r, pendingItems) THEN FALSE
                              ELSE processingBatch
        /\ lastOp' = Op("downloadItem", toast, 0)
        /\ UNCHANGED <<loadingPlaylist, downloadType, tauri, itemsToProcess,
                       pendingItems, imports, nextId, starts, importCalls, origin, submitNextId>>

\* A worker moved on without returning.
Continue(id, q, stage) ==
    /\ batchQueue' = q
    /\ pool' = [pool EXCEPT ![id] = stage]
    /\ lastOp' = Op("downloadItem", "none", 0)
    /\ UNCHANGED <<processingBatch, completedCount, loadingPlaylist,
                   downloadType, tauri, itemsToProcess, pendingItems, nextIdx,
                   imports, nextId, starts, importCalls, origin, submitNextId>>

\* A rejected getVideoInfo handled like a finished download: the title set
\* and the item counted.
GetVideoInfoFailsCounted(id) ==
    /\ id \in DOMAIN pool
    /\ pool[id].pc = "getVideoInfo"
    /\ tauri
    /\ Settle(id, SetError(SetTitle(batchQueue, id, InfoTitle), id, ErrorMessage),
              completedCount + 1, "error")

\* mockService.getVideoInfo rejects (only the Tauri call can).
GetVideoInfoFails(id) ==
    /\ id \in DOMAIN pool
    /\ pool[id].pc = "getVideoInfo"
    /\ tauri
    /\ Settle(id, SetError(batchQueue, id, ErrorMessage), completedCount,
              "error")

\* mockService.getVideoInfo resolves; downloadMedia is called and runs up to
\* its first await (or throws at once outside Tauri).
GetVideoInfoOk(id) ==
    /\ id \in DOMAIN pool
    /\ pool[id].pc = "getVideoInfo"
    /\ LET q1 == SetTitle(batchQueue, id, InfoTitle)
       IN  IF tauri
           THEN Continue(id, SetProgress(q1, id, ProgressStart),
                         [pc |-> "invoke", i |-> 0])
           ELSE Settle(id, SetError(q1, id, ErrorMessage), completedCount,
                       "error")

\* invoke('download_audio' | 'download_video') rejects: onProgress(0), throw.
InvokeFails(id) ==
    /\ id \in DOMAIN pool
    /\ pool[id].pc = "invoke"
    /\ Settle(id, SetError(SetProgress(batchQueue, id, 0), id, ErrorMessage),
              completedCount, "error")

\* invoke resolves: the simulated progress loop starts with its first delay.
InvokeOk(id) ==
    /\ id \in DOMAIN pool
    /\ pool[id].pc = "invoke"
    /\ Continue(id, batchQueue, [pc |-> "delay", i |-> ProgressLoopFirst])

\* delay(200) elapsed inside the loop and another iteration follows.
ProgressTick(id) ==
    /\ id \in DOMAIN pool
    /\ pool[id].pc = "delay"
    /\ pool[id].i + ProgressLoopStep <= ProgressLoopLast
    /\ Continue(id, SetProgress(batchQueue, id, pool[id].i),
                [pc |-> "delay", i |-> pool[id].i + ProgressLoopStep])

\* Last delay elapsed, the response yields a file name: onProgress(100),
\* return; downloadItem marks the item completed and counts it.
DownloadSucceeds(id) ==
    /\ id \in DOMAIN pool
    /\ pool[id].pc = "delay"
    /\ pool[id].i + ProgressLoopStep > ProgressLoopLast
    /\ Settle(id, SetCompleted(SetProgress(SetProgress(batchQueue, id, pool[id].i),
                                           id, ProgressDone), id),
              completedCount + 1, "success")

\* Last delay elapsed, the response has no file name: onProgress(100), throw
\* "Invalid response", caught by downloadMedia's own catch: onProgress(0), throw.
DownloadInvalid(id) ==
    /\ id \in DOMAIN pool
    /\ pool[id].pc = "delay"
    /\ pool[id].i + ProgressLoopStep > ProgressLoopLast
    /\ Settle(id, SetError(SetProgress(batchQueue, id, 0), id, ErrorMessage),
              completedCount, "error")

-----------------------------------------------------------------------------
(* Handlers *)

\* handleBatchProcess without the processingBatch test of its guard.
HandleBatchProcessUnguarded ==
    IF Len(batchQueue) = 0
    THEN Ignored("handleBatchProcess", "none")
    ELSE LET targets == QueueIds(batchQueue) \ IdsWithStatus(batchQueue, "completed")
         IN  IF targets = {}
             THEN ProcessBatchQueue(QueueIds(batchQueue), batchQueue, "handleBatchProcess", 0)
             ELSE ProcessBatchQueue(targets, batchQueue, "handleBatchProcess", 0)

HandleBatchProcess ==
    IF Len(batchQueue) = 0 \/ processingBatch
    THEN Ignored("handleBatchProcess", "none")
    ELSE LET targets == QueueIds(batchQueue) \ IdsWithStatus(batchQueue, "completed")
         IN  IF targets = {}
             THEN ProcessBatchQueue(QueueIds(batchQueue), batchQueue, "handleBatchProcess", 0)
             ELSE ProcessBatchQueue(targets, batchQueue, "handleBatchProcess", 0)

\* handleRetryFailed resubmitting every item of the queue.
HandleRetryFailedAll ==
    LET failedItems == IdsWithStatus(batchQueue, "error")
    IN  IF failedItems = {} \/ processingBatch
        THEN Ignored("handleRetryFailed", "none")
        ELSE ProcessBatchQueue(QueueIds(batchQueue), batchQueue,
                               "handleRetryFailed", 0)

\* handleRetryFailed without the failedItems.length test of its guard.
HandleRetryFailedUnguarded ==
    LET failedItems == IdsWithStatus(batchQueue, "error")
    IN  IF processingBatch
        THEN Ignored("handleRetryFailed", "none")
        ELSE ProcessBatchQueue(failedItems, batchQueue, "handleRetryFailed", 0)

HandleRetryFailed ==
    LET failedItems == IdsWithStatus(batchQueue, "error")
    IN  IF failedItems = {} \/ processingBatch
        THEN Ignored("handleRetryFailed", "none")
        ELSE ProcessBatchQueue(failedItems, batchQueue, "handleRetryFailed", 0)

HandleRetryItem(id) ==
    IF id \notin QueueIds(batchQueue) \/ processingBatch
    THEN Ignored("handleRetryItem", "none")
    ELSE ProcessBatchQueue({id}, batchQueue, "handleRetryItem", id)

\* clearQueue without its processingBatch test.
ClearQueueUnguarded ==
    /\ batchQueue' = <<>>
    /\ completedCount' = 0
    /\ lastOp' = Op("clearQueue", "none", 0)
    /\ UNCHANGED <<processingBatch, loadingPlaylist, downloadType, tauri,
                   itemsToProcess, pendingItems, nextIdx, pool, imports, nextId,
                   starts, importCalls, origin, submitNextId>>

ClearQueue ==
    IF processingBatch
    THEN Ignored("clearQueue", "none")
    ELSE /\ batchQueue' = <<>>
         /\ completedCount' = 0
         /\ lastOp' = Op("clearQueue", "none", 0)
         /\ UNCHANGED <<processingBatch, loadingPlaylist, downloadType, tauri,
                        itemsToProcess, pendingItems, nextIdx, pool, imports, nextId, starts, importCalls, origin, submitNextId>>

\* urls.map(u => ({id, url: u.trim(), status: 'pending', progress: 0, type}))
RECURSIVE NewItems(_, _, _, _)
NewItems(urls, titles, firstId, type) ==
    IF urls = <<>> THEN <<>>
    ELSE <<NewItem(firstId, Trim(Head(urls)), Head(titles), type)>>
         \o NewItems(Tail(urls), Tail(titles), firstId + 1, type)

\* addToBatch leaving out the URLs that the queue already holds.
AddToBatchDedup(batchInput) ==
    IF Len(Trim(batchInput)) = 0
    THEN Ignored("addToBatch", "none")
    ELSE LET Fresh(u) == /\ NonBlank(u)
                         /\ \A k \in DOMAIN batchQueue : batchQueue[k].url # Trim(u)
             urls == SelectSeq(SplitLines(batchInput), Fresh)
             newItems == NewItems(urls, [k \in DOMAIN urls |-> Undefined],
                                  nextId, downloadType)
         IN  /\ batchQueue' = batchQueue \o newItems
             /\ nextId' = nextId + Len(urls)
             /\ lastOp' = Op("addToBatch", "none", 0)
             /\ UNCHANGED <<processingBatch, completedCount, loadingPlaylist,
                            downloadType, tauri, itemsToProcess, pendingItems,
                            nextIdx, pool, imports, starts, importCalls, origin,
                            submitNextId>>

AddToBatch(batchInput) ==
    IF Len(Trim(batchInput)) = 0
    THEN Ignored("addToBatch", "none")
    ELSE LET urls == SelectSeq(SplitLines(batchInput), NonBlank)
             newItems == NewItems(urls, [k \in DOMAIN urls |-> Undefined],
                                  nextId, downloadType)
         IN  /\ batchQueue' = batchQueue \o newItems
             /\ nextId' = nextId + Len(urls)
             /\ lastOp' = Op("addToBatch", "none", 0)
             /\ UNCHANGED <<processingBatch, completedCount, loadingPlaylist,
                            downloadType, tauri, itemsToProcess, pendingItems,
                            nextIdx, pool, imports, starts, importCalls, origin, submitNextId>>

IsPlaylistUrl(u) ==
    \/ Includes(u, <<"p", "l", "a", "y", "l", "i", "s", "t">>)
    \/ Includes(u, <<"l", "i", "s", "t", "=">>)

\* importPlaylist without its playlist-marker test.
ImportPlaylistUnchecked(batchInput) ==
    LET playlistUrl == Trim(batchInput)
    IN  IF Len(playlistUrl) = 0
        THEN Ignored("importPlaylist", "none")
        ELSE /\ loadingPlaylist' = TRUE
             /\ imports' = Append(imports, [batchQueue |-> batchQueue,
                                            downloadType |-> downloadType])
             /\ importCalls' = importCalls + 1
             /\ lastOp' = Op("importPlaylist", "none", 0)
             /\ UNCHANGED <<batchQueue, processingBatch, completedCount,
                            downloadType, tauri, itemsToProcess, pendingItems,
                            nextIdx, pool, nextId, starts, origin, submitNextId>>

\* importPlaylist up to "await mockService.getPlaylistInfo(playlistUrl)".
\* The call keeps the batchQueue and downloadType of the render it was made in.
ImportPlaylist(batchInput) ==
    LET playlistUrl == Trim(batchInput)
    IN  IF Len(playlistUrl) = 0
        THEN Ignored("importPlaylist", "none")
        ELSE IF ~IsPlaylistUrl(playlistUrl)
        THEN Ignored("importPlaylist", "warning")
        ELSE /\ loadingPlaylist' = TRUE
             /\ imports' = Append(imports, [batchQueue |-> batchQueue,
                                            downloadType |-> downloadType])
             /\ importCalls' = importCalls + 1
             /\ lastOp' = Op("importPlaylist", "none", 0)
             /\ UNCHANGED <<batchQueue, processingBatch, completedCount,
                            downloadType, tauri, itemsToProcess, pendingItems,
                            nextIdx, pool, nextId, starts, origin, submitNextId>>

RemoveAt(s, k) == SubSeq(s, 1, k - 1) \o SubSeq(s, k + 1, Len(s))

PlaylistItemUrl == <<"v">>

\* The browser preview's getPlaylistInfo returns its demo playlist.
DemoPlaylistCount == 3

\* getPlaylistInfo resolved with n >= 1 items for the k-th waiting call.
PlaylistResolved(k, n) ==
    /\ k \in DOMAIN imports
    /\ n >= 1
    /\ tauri \/ n = DemoPlaylistCount
    /\ LET newItems == NewItems([j \in 1..n |-> PlaylistItemUrl],
                                [j \in 1..n |-> PlaylistTitle],
                                nextId, imports[k].downloadType)
       IN  batchQueue' = imports[k].batchQueue \o newItems
    /\ nextId' = nextId + n
    /\ imports' = RemoveAt(imports, k)
    /\ loadingPlaylist' = FALSE
    /\ lastOp' = Op("playlistResolved", "success", 0)
    /\ UNCHANGED <<processingBatch, completedCount, downloadType, tauri,
                   itemsToProcess, pendingItems, nextIdx, pool, starts,
                   importCalls, origin, submitNextId>>

\* getPlaylistInfo resolved with no items (only the Tauri call can).
PlaylistEmpty(k) ==
    /\ k \in DOMAIN imports
    /\ tauri
    /\ imports' = RemoveAt(imports, k)
    /\ loadingPlaylist' = FALSE
    /\ lastOp' = Op("playlistEmpty", "warning", 0)
    /\ UNCHANGED <<batchQueue, processingBatch, completedCount, downloadType,
                   tauri, itemsToProcess, pendingItems, nextIdx, pool, nextId, starts, importCalls, origin, submitNextId>>

\* A rejected getPlaylistInfo without the finally block of importPlaylist.
PlaylistFailsNoFinally(k) ==
    /\ k \in DOMAIN imports
    /\ tauri
    /\ imports' = RemoveAt(imports, k)
    /\ lastOp' = Op("playlistFails", "error", 0)
    /\ UNCHANGED <<batchQueue, processingBatch, completedCount, loadingPlaylist,
                   downloadType, tauri, itemsToProcess, pendingItems, nextIdx,
                   pool, nextId, starts, importCalls, origin, submitNextId>>

\* getPlaylistInfo rejected (only the Tauri call can).
PlaylistFails(k) ==
    /\ k \in DOMAIN imports
    /\ tauri
    /\ imports' = RemoveAt(imports, k)
    /\ loadingPlaylist' = FALSE
    /\ lastOp' = Op("playlistFails", "error", 0)
    /\ UNCHANGED <<batchQueue, processingBatch, completedCount, downloadType,
                   tauri, itemsToProcess, pendingItems, nextIdx, pool, nextId, starts, importCalls, origin, submitNextId>>

\* totalProgress, in whole percent (the quotient is rounded down here; the
\* component rounds it for display).
TotalProgress ==
    IF Len(batchQueue) > 0
    THEN (completedCount * 100) \div Len(batchQueue)
    ELSE 0

-----------------------------------------------------------------------------
(* Specification *)

AddInputs == { <<"u">>, <<"u", "\n", " ", "\n", "u">>, <<" ">> }

ImportInputs ==
    { <<" ">>, <<"v", "=", "a">>, <<"l", "i", "s", "t">>,
      <<"l", "i", "s", "t", "=", "P">>,
      <<" ", "p", "l", "a", "y", "l", "i", "s", "t", "\n">> }

Init ==
    /\ batchQueue = <<>>
    /\ processingBatch = FALSE
    /\ completedCount = 0
    /\ loadingPlaylist = FALSE
    /\ downloadType = "video"
    /\ tauri \in BOOLEAN
    /\ itemsToProcess = {}
    /\ pendingItems = <<>>
    /\ nextIdx = 1
    /\ pool = NoWorkers
    /\ imports = <<>>
    /\ nextId = 1
    /\ starts = 0
    /\ importCalls = 0
    /\ origin = "none"
    /\ submitNextId = 1
    /\ lastOp = Op("init", "none", 0)

\* The bounds of an exploration: ids, worker starts and playlist calls.
Within(maxItems, maxStarts, maxImports) ==
    /\ nextId' <= maxItems + 1
    /\ starts' <= maxStarts
    /\ importCalls' <= maxImports

\* A handler call that got past its guards.
Accepted == ~lastOp'.ignored

(* Spec: the queue and the scheduler, in the desktop app and in the browser
   preview.  Calls that return at a guard leave the state as it is and are
   left out. *)
Next ==
    \/ \E input \in AddInputs :
          AddToBatch(input) /\ Accepted /\ Within(MaxItems, MaxStarts, 0)
    \/ HandleBatchProcess /\ Accepted /\ Within(MaxItems, MaxStarts, 0)
    \/ HandleRetryFailed /\ Accepted /\ Within(MaxItems, MaxStarts, 0)
    \/ \E id \in 1..MaxItems :
          HandleRetryItem(id) /\ Accepted /\ Within(MaxItems, MaxStarts, 0)
    \/ ClearQueue /\ Accepted
    \/ \E id \in 1..MaxItems : GetVideoInfoFails(id)
    \/ \E id \in 1..MaxItems : GetVideoInfoOk(id)
    \/ \E id \in 1..MaxItems : InvokeFails(id)
    \/ \E id \in 1..MaxItems : InvokeOk(id)
    \/ \E id \in 1..MaxItems : ProgressTick(id)
    \/ \E id \in 1..MaxItems : DownloadSucceeds(id)
    \/ \E id \in 1..MaxItems : DownloadInvalid(id)

Spec == Init /\ [][Next]_vars

(* WebSpec: the browser preview (isTauri() is false), with playlist import. *)
WebInit == Init /\ ~tauri

WebNext ==
    \/ \E input \in AddInputs :
          AddToBatch(input) /\ Accepted
          /\ Within(WebMaxItems, WebMaxStarts, WebMaxImports)
    \/ \E input \in ImportInputs :
          ImportPlaylist(input) /\ Accepted
          /\ Within(WebMaxItems, WebMaxStarts, WebMaxImports)
    \/ \E k \in 1..WebMaxImports :
          PlaylistResolved(k, DemoPlaylistCount)
          /\ Within(WebMaxItems, WebMaxStarts, WebMaxImports)
    \/ HandleBatchProcess /\ Accepted
          /\ Within(WebMaxItems, WebMaxStarts, WebMaxImports)
    \/ HandleRetryFailed /\ Accepted
          /\ Within(WebMaxItems, WebMaxStarts, WebMaxImports)
    \/ \E id \in 1..WebMaxItems :
          HandleRetryItem(id) /\ Accepted
          /\ Within(WebMaxItems, WebMaxStarts, WebMaxImports)
    \/ ClearQueue /\ Accepted
    \/ \E id \in 1..WebMaxItems : GetVideoInfoOk(id)

WebSpec == WebInit /\ [][WebNext]_vars

(* GuardSpec: every handler call, also those that return at a guard. *)
GuardNext ==
    \/ \E input \in AddInputs :
          AddToBatch(input)
          /\ Within(GuardMaxItems, GuardMaxStarts, GuardMaxImports)
    \/ \E input \in ImportInputs :
          ImportPlaylist(input)
          /\ Within(GuardMaxItems, GuardMaxStarts, GuardMaxImports)
    \/ \E k \in 1..GuardMaxImports, n \in 1..GuardMaxItems :
          PlaylistResolved(k, n)
          /\ Within(GuardMaxItems, GuardMaxStarts, GuardMaxImports)
    \/ \E k \in 1..GuardMaxImports : PlaylistEmpty(k)
    \/ \E k \in 1..GuardMaxImports : PlaylistFails(k)
    \/ HandleBatchProcess
          /\ Within(GuardMaxItems, GuardMaxStarts, GuardMaxImports)
    \/ HandleRetryFailed
          /\ Within(GuardMaxItems, GuardMaxStarts, GuardMaxImports)
    \/ \E id \in 1..(GuardMaxItems + 1) :
          HandleRetryItem(id)
          /\ Within(GuardMaxItems, GuardMaxStarts, GuardMaxImports)
    \/ ClearQueue
    \/ \E id \in 1..GuardMaxItems : GetVideoInfoFails(id)
    \/ \E id \in 1..GuardMaxItems : GetVideoInfoOk(id)
    \/ \E id \in 1..GuardMaxItems : InvokeFails(id)
    \/ \E id \in 1..GuardMaxItems : InvokeOk(id)
    \/ \E id \in 1..GuardMaxItems : ProgressTick(id)
    \/ \E id \in 1..GuardMaxItems : DownloadSucceeds(id)
    \/ \E id \in 1..GuardMaxItems : DownloadInvalid(id)

GuardSpec == Init /\ [][GuardNext]_vars

(* WebSpec with the assumption of C4: every service call of a running worker
   eventually settles. *)
FairWebSpec ==
    WebSpec /\ WF_vars(\E id \in 1..WebMaxItems : GetVideoInfoOk(id))

(* AddSpec: addToBatch on inputs with several lines, before and during a
   submission; calls of addToBatch that return at its guard included. *)
AddOrderInputs == AddInputs \cup { <<" ", "a", "\n", "\n", "b", " ">> }

AddNext ==
    \/ \E input \in AddOrderInputs :
          AddToBatch(input) /\ Within(AddMaxItems, AddMaxStarts, 0)
    \/ HandleBatchProcess /\ Accepted /\ Within(AddMaxItems, AddMaxStarts, 0)
    \/ ClearQueue /\ Accepted
    \/ \E id \in 1..AddMaxItems : GetVideoInfoFails(id)
    \/ \E id \in 1..AddMaxItems : GetVideoInfoOk(id)
    \/ \E id \in 1..AddMaxItems : InvokeFails(id)
    \/ \E id \in 1..AddMaxItems : InvokeOk(id)
    \/ \E id \in 1..AddMaxItems : ProgressTick(id)
    \/ \E id \in 1..AddMaxItems : DownloadSucceeds(id)
    \/ \E id \in 1..AddMaxItems : DownloadInvalid(id)

AddSpec == Init /\ [][AddNext]_vars

(* ReimportSpec: the desktop app with two playlist imports, so that a
   second import can capture what the first one wrote back; the runs are
   those in which no download command succeeds (getVideoInfo or invoke
   rejects). *)
ReimportInit == Init /\ tauri

ReimportNext ==
    \/ \E input \in AddInputs :
          AddToBatch(input) /\ Accepted
          /\ Within(ReimportMaxItems, ReimportMaxStarts, ReimportMaxImports)
    \/ \E input \in ImportInputs :
          ImportPlaylist(input) /\ Accepted
          /\ Within(ReimportMaxItems, ReimportMaxStarts, ReimportMaxImports)
    \/ \E k \in 1..ReimportMaxImports, n \in 1..ReimportMaxItems :
          PlaylistResolved(k, n)
          /\ Within(ReimportMaxItems, ReimportMaxStarts, ReimportMaxImports)
    \/ HandleBatchProcess /\ Accepted
          /\ Within(ReimportMaxItems, ReimportMaxStarts, ReimportMaxImports)
    \/ HandleRetryFailed /\ Accepted
          /\ Within(ReimportMaxItems, ReimportMaxStarts, ReimportMaxImports)
    \/ \E id \in 1..ReimportMaxItems :
          HandleRetryItem(id) /\ Accepted
          /\ Within(ReimportMaxItems, ReimportMaxStarts, ReimportMaxImports)
    \/ \E id \in 1..ReimportMaxItems : GetVideoInfoFails(id)
    \/ \E id \in 1..ReimportMaxItems : GetVideoInfoOk(id)
    \/ \E id \in 1..ReimportMaxItems : InvokeFails(id)

ReimportSpec == ReimportInit /\ [][ReimportNext]_vars

(* ScenarioSpec: items are added, handleBatchProcess is called once, and
   after its run handleRetryFailed is called as long as items are in error. *)
ScenarioNext ==
    \/ \E input \in AddInputs :
          AddToBatch(input) /\ Accepted /\ origin = "none"
          /\ Within(ScenarioMaxItems, ScenarioMaxStarts, 0)
    \/ HandleBatchProcess /\ Accepted /\ origin = "none"
          /\ Within(ScenarioMaxItems, ScenarioMaxStarts, 0)
    \/ HandleRetryFailed /\ Accepted
          /\ Within(ScenarioMaxItems, ScenarioMaxStarts, 0)
    \/ \E id \in 1..ScenarioMaxItems : GetVideoInfoFails(id)
    \/ \E id \in 1..ScenarioMaxItems : GetVideoInfoOk(id)
    \/ \E id \in 1..ScenarioMaxItems : InvokeFails(id)
    \/ \E id \in 1..ScenarioMaxItems : InvokeOk(id)
    \/ \E id \in 1..ScenarioMaxItems : ProgressTick(id)
    \/ \E id \in 1..ScenarioMaxItems : DownloadSucceeds(id)
    \/ \E id \in 1..ScenarioMaxItems : DownloadInvalid(id)

ScenarioSpec == Init /\ [][ScenarioNext]_vars

-----------------------------------------------------------------------------
(* Properties *)

Range(f) == {f[k] : k \in DOMAIN f}

Present(id) == id \in QueueIds(batchQueue)

HasStatus(id, statuses) ==
    \E k \in DOMAIN batchQueue :
        batchQueue[k].id = id /\ batchQueue[k].status \in statuses

RetryHandlers == {"handleRetryFailed", "handleRetryItem"}

SubmitHandlers == {"handleBatchProcess", "handleRetryFailed", "handleRetryItem"}

\* The state right after the task in which a submission finished.
JustFinished == lastOp.op = "downloadItem" /\ ~processingBatch

\* C1: in every reachable state at most CONCURRENCY items have status
\* processing and at most CONCURRENCY downloadItem calls are running.
C1_BoundedConcurrency ==
    /\ Cardinality(IdsWithStatus(batchQueue, "processing")) <= CONCURRENCY
    /\ Cardinality(DOMAIN pool) <= CONCURRENCY

\* C2: a step in which a worker returns sets that worker's item to completed
\* or error according to its own outcome, leaves every other item as it was
\* (or admits it), leaves the other workers running, admits the next
\* un-started item whatever the outcome, and keeps the submission going
\* until no worker is left.
C2_Isolation ==
    [][\A id \in DOMAIN pool \ DOMAIN pool' :
          /\ lastOp'.toast \in {"success", "error"}
          /\ Len(batchQueue') = Len(batchQueue)
          /\ \A k \in DOMAIN batchQueue :
                /\ batchQueue[k].id = id =>
                      batchQueue'[k].status =
                          IF lastOp'.toast = "success" THEN "completed" ELSE "error"
                /\ batchQueue[k].id # id =>
                      \/ batchQueue'[k] = batchQueue[k]
                      \/ /\ batchQueue[k].id \in DOMAIN pool' \ DOMAIN pool
                         /\ batchQueue'[k] = [batchQueue[k] EXCEPT !.status = "processing"]
          /\ \A j \in DOMAIN pool \ {id} : j \in DOMAIN pool' /\ pool'[j] = pool[j]
          /\ nextIdx <= Len(pendingItems) => pendingItems[nextIdx] \in DOMAIN pool'
          /\ pendingItems' = pendingItems
          /\ processingBatch' = (DOMAIN pool' # {})
      ]_vars

\* A submission of four items is over; its first item failed and its last
\* item, admitted after a worker returned, completed.
C2_Witness ==
    /\ ~processingBatch
    /\ Len(pendingItems) > CONCURRENCY
    /\ HasStatus(pendingItems[1], {"error"})
    /\ HasStatus(pendingItems[Len(pendingItems)], {"completed"})

\* C3: when a submission finishes, every submitted item is completed or
\* error: their numbers add up to the number of submitted items.
C3_Conservation ==
    JustFinished =>
        Cardinality(itemsToProcess \cap IdsWithStatus(batchQueue, "completed"))
        + Cardinality(itemsToProcess \cap IdsWithStatus(batchQueue, "error"))
        = Cardinality(itemsToProcess)

\* C4: a started submission eventually finishes, and every submitted item
\* eventually is completed or error.
C4_Liveness ==
    /\ processingBatch ~> ~processingBatch
    /\ \A id \in 1..WebMaxItems :
          (processingBatch /\ id \in itemsToProcess)
              ~> HasStatus(id, {"completed", "error"})

\* C5: a run started by handleRetryFailed admits only items that were error
\* at the call, and a run started by handleRetryItem on an error item admits
\* only that item; an item that was pending at the call stays out.
C5_RetryRunsRetriedSet ==
    [][/\ (lastOp'.op = "handleRetryFailed" /\ Accepted) =>
              Range(pendingItems') \subseteq IdsWithStatus(batchQueue, "error")
       /\ (/\ lastOp'.op = "handleRetryItem"
           /\ Accepted
           /\ lastOp'.id \in IdsWithStatus(batchQueue, "error")) =>
              Range(pendingItems') \subseteq {lastOp'.id}
      ]_vars

\* C6: handleBatchProcess submits the items that are not completed; an item
\* that is completed at the call is not reset, not admitted, and keeps its
\* status and progress during the run.
C6_StartSkipsCompleted ==
    [][/\ (lastOp'.op = "handleBatchProcess" /\ Accepted) =>
              /\ itemsToProcess' =
                    QueueIds(batchQueue) \ IdsWithStatus(batchQueue, "completed")
              /\ \A k \in DOMAIN batchQueue :
                    batchQueue[k].status = "completed" =>
                        /\ batchQueue'[k] = batchQueue[k]
                        /\ batchQueue[k].id \notin Range(pendingItems')
       /\ (origin = "handleBatchProcess" /\ processingBatch) =>
              \A k \in DOMAIN batchQueue :
                  (batchQueue[k].status = "completed"
                   /\ batchQueue[k].id \notin Range(pendingItems)) =>
                      /\ k \in DOMAIN batchQueue'
                      /\ batchQueue'[k].id = batchQueue[k].id
                      /\ batchQueue'[k].status = "completed"
                      /\ batchQueue'[k].progress = ProgressDone
      ]_vars

\* C7: handleRetryFailed changes only items that are error at the call: at
\* the call and during the run it started, every other item stays as it is.
C7_RetrySelectivity ==
    [][/\ (lastOp'.op = "handleRetryFailed" /\ Accepted) =>
              \A k \in DOMAIN batchQueue :
                  batchQueue[k].status # "error" => batchQueue'[k] = batchQueue[k]
       /\ (origin = "handleRetryFailed" /\ processingBatch) =>
              \A k \in DOMAIN batchQueue :
                  batchQueue[k].id \notin itemsToProcess =>
                      k \in DOMAIN batchQueue' /\ batchQueue'[k] = batchQueue[k]
      ]_vars

\* C8: handleRetryItem(id) for an id that is not an error item of the queue
\* changes nothing and starts no worker.
C8_RetryItemNeedsError ==
    [][(/\ lastOp'.op = "handleRetryItem"
        /\ lastOp'.id \notin IdsWithStatus(batchQueue, "error")) =>
           UNCHANGED <<batchQueue, completedCount, processingBatch, pool,
                       itemsToProcess, pendingItems, starts>>
      ]_vars

\* C9: while processingBatch is true no submission starts, and a call of
\* handleBatchProcess, handleRetryFailed or handleRetryItem returns at its
\* guard, leaving queue, counter, guard and workers as they are.
C9_SingleActiveSubmission ==
    [][processingBatch =>
          /\ starts' = starts
          /\ itemsToProcess' = itemsToProcess
          /\ pendingItems' = pendingItems
          /\ origin' = origin
          /\ lastOp'.op \in SubmitHandlers =>
                /\ lastOp'.ignored
                /\ UNCHANGED <<batchQueue, completedCount, processingBatch,
                               pool, nextIdx>>
      ]_vars

\* handleBatchProcess was called while workers were running, and returned.
C9_Witness ==
    /\ lastOp.op = "handleBatchProcess"
    /\ lastOp.ignored
    /\ processingBatch
    /\ DOMAIN pool # {}

\* C10: while a submission runs and when it finishes, every item created
\* after it began is in the queue, pending with progress 0, and has no worker.
C10_SnapshotSemantics ==
    (processingBatch \/ JustFinished) =>
        \A id \in submitNextId..(nextId - 1) :
            /\ id \notin DOMAIN pool
            /\ id \notin Range(pendingItems)
            /\ \E k \in DOMAIN batchQueue :
                  /\ batchQueue[k].id = id
                  /\ batchQueue[k].status = "pending"
                  /\ batchQueue[k].progress = 0

\* C11: whenever processingBatch is false, no downloadItem call is running
\* and no item of the queue has status processing.
C11_GuardRelease ==
    ~processingBatch =>
        /\ DOMAIN pool = {}
        /\ IdsWithStatus(batchQueue, "processing") = {}

\* C12: a call of clearQueue while processingBatch is true returns at its
\* guard: the queue, the completed counter, the guard, the running workers
\* and the scheduler's position are as they were.
C12_ClearWhileProcessing ==
    [][(processingBatch /\ lastOp'.op = "clearQueue") =>
           /\ lastOp'.ignored
           /\ UNCHANGED <<batchQueue, completedCount, processingBatch, pool,
                          nextIdx, pendingItems, itemsToProcess>>
      ]_vars

\* clearQueue was called while a worker was running on a non-empty queue.
C12_Witness ==
    /\ lastOp.op = "clearQueue"
    /\ lastOp.ignored
    /\ processingBatch
    /\ Len(batchQueue) > 0
    /\ DOMAIN pool # {}

\* C13: from a queue of pending items, handleBatchProcess ends with every
\* item completed or error according to its own worker's outcome; a following
\* handleRetryFailed admits exactly the error items; and when a run ends with
\* no item in error, every item is completed and completedCount is the
\* length of the queue.
C13_ScenarioA ==
    /\ [](JustFinished =>
            /\ \A k \in DOMAIN batchQueue :
                  batchQueue[k].status \in {"completed", "error"}
            /\ completedCount = CountCompleted(batchQueue)
            /\ IdsWithStatus(batchQueue, "error") = {} =>
                  /\ CountCompleted(batchQueue) = Len(batchQueue)
                  /\ completedCount = Len(batchQueue))
    /\ [][/\ \A id \in DOMAIN pool \ DOMAIN pool' :
                /\ lastOp'.toast = "success" => HasStatus(id, {"completed"})'
                /\ lastOp'.toast = "error" => HasStatus(id, {"error"})'
          /\ \A k \in DOMAIN batchQueue :
                (/\ processingBatch
                 /\ batchQueue[k].id \notin DOMAIN pool \cup DOMAIN pool') =>
                    batchQueue'[k] = batchQueue[k]
          /\ lastOp'.op = "handleRetryFailed" =>
                /\ itemsToProcess' = IdsWithStatus(batchQueue, "error")
                /\ Range(pendingItems') = IdsWithStatus(batchQueue, "error")
                /\ Len(pendingItems') = Cardinality(IdsWithStatus(batchQueue, "error"))
         ]_vars

\* Four items were started, some failed, and the retry run that
\* handleRetryFailed started has ended with all four completed.
C13_Witness ==
    /\ JustFinished
    /\ origin = "handleRetryFailed"
    /\ Len(batchQueue) > CONCURRENCY
    /\ CountCompleted(batchQueue) = Len(batchQueue)
    /\ completedCount = Len(batchQueue)
    /\ starts > Len(batchQueue)

\* C14: whenever no submission is in flight, completedCount is the number
\* of items of the queue whose status is completed.
C14_CompletedCounter ==
    ~processingBatch => completedCount = CountCompleted(batchQueue)

\* C15: in every reachable state an item whose status is completed has
\* progress 100.
C15_CompletedProgress ==
    \A k \in DOMAIN batchQueue :
        batchQueue[k].status = "completed" => batchQueue[k].progress = ProgressDone

\* C16: in every reachable state an item whose status is error has an
\* errorMsg, and an item whose status is pending, processing or completed
\* has none.
C16_ErrorMessage ==
    \A k \in DOMAIN batchQueue :
        (batchQueue[k].status = "error") <=> (batchQueue[k].errorMsg # Undefined)

\* C17: a call of importPlaylist on an input that contains neither "list="
\* nor "playlist" returns at once: the queue and every other part of the
\* state are as they were, getPlaylistInfo is not called, and the only toast
\* is a warning (raised whenever the input is not blank).
C17_ImportRejected ==
    [][\A input \in ImportInputs :
          (~IsPlaylistUrl(Trim(input)) /\ ImportPlaylist(input)) =>
              /\ lastOp'.ignored
              /\ lastOp'.toast = IF Len(Trim(input)) > 0 THEN "warning" ELSE "none"
              /\ UNCHANGED <<batchQueue, processingBatch, completedCount,
                             loadingPlaylist, imports, importCalls, nextId,
                             pool, starts>>
      ]_vars

\* importPlaylist was called on a queue with items and raised its warning.
C17_Witness ==
    /\ lastOp.op = "importPlaylist"
    /\ lastOp.ignored
    /\ lastOp.toast = "warning"
    /\ Len(batchQueue) > 0
    /\ imports = <<>>
    /\ importCalls = 0

\* C18: when getPlaylistInfo resolves with k >= 1 items, the queue becomes
\* the queue as it was followed by k new items, pending with progress 0 and
\* the selected type, with ids in the order returned.
C18_ImportAppends ==
    [][lastOp'.op = "playlistResolved" =>
          /\ nextId' > nextId
          /\ Len(batchQueue') = Len(batchQueue) + (nextId' - nextId)
          /\ SubSeq(batchQueue', 1, Len(batchQueue)) = batchQueue
          /\ \A k \in (Len(batchQueue) + 1)..Len(batchQueue') :
                /\ batchQueue'[k].id = nextId + (k - Len(batchQueue) - 1)
                /\ batchQueue'[k].status = "pending"
                /\ batchQueue'[k].progress = 0
                /\ batchQueue'[k].type = downloadType
      ]_vars

\* C19: when getPlaylistInfo rejects or resolves with no items, the queue is
\* as it was, no item is created, and loadingPlaylist is false afterwards;
\* the empty playlist raises a warning, the rejection an error.
C19_ImportAppendsNothing ==
    [][lastOp'.op \in {"playlistEmpty", "playlistFails"} =>
          /\ batchQueue' = batchQueue
          /\ nextId' = nextId
          /\ completedCount' = completedCount
          /\ loadingPlaylist' = FALSE
          /\ Len(imports') = Len(imports) - 1
          /\ lastOp'.toast =
                IF lastOp'.op = "playlistEmpty" THEN "warning" ELSE "error"
      ]_vars

\* getPlaylistInfo rejected for an import into a queue with items.
C19_Witness ==
    /\ lastOp.op = "playlistFails"
    /\ Len(batchQueue) > 0
    /\ ~loadingPlaylist
    /\ importCalls > 0
    /\ imports = <<>>

\* The positions in an input of the first non-blank character of a line.
LineStarts(input) ==
    {k \in 1..Len(input) :
        /\ ~IsSpace(input[k])
        /\ \A j \in 1..(k - 1) :
              (\A h \in j..(k - 1) : input[h] # "\n") => IsSpace(input[j])}

\* C20: addToBatch appends one new item per non-blank line of its input, in
\* input order, pending with progress 0, whether or not the queue already
\* holds the URL; the items already in the queue stay as they are and where
\* they are, also while a submission is in flight.
C20_AddAppends ==
    [][\A input \in AddOrderInputs :
          AddToBatch(input) =>
              LET lines == SelectSeq(SplitLines(input), NonBlank)
                  old == Len(batchQueue)
              IN  /\ Len(lines) = Cardinality(LineStarts(input))
                  /\ Len(batchQueue') = old + Len(lines)
                  /\ SubSeq(batchQueue', 1, old) = batchQueue
                  /\ \A j \in 1..Len(lines) :
                        /\ batchQueue'[old + j].url = Trim(lines[j])
                        /\ batchQueue'[old + j].status = "pending"
                        /\ batchQueue'[old + j].progress = 0
                        /\ batchQueue'[old + j].id \notin QueueIds(batchQueue)
                        /\ \A h \in 1..(j - 1) :
                              batchQueue'[old + h].id # batchQueue'[old + j].id
                  /\ UNCHANGED <<processingBatch, completedCount, pool,
                                 pendingItems, itemsToProcess, nextIdx>>
      ]_vars

\* During a submission addToBatch appended an item whose URL the queue
\* already held, behind an item that is being processed.
C20_Witness ==
    /\ lastOp.op = "addToBatch"
    /\ ~lastOp.ignored
    /\ processingBatch
    /\ Len(batchQueue) > 1
    /\ batchQueue[1].status = "processing"
    /\ batchQueue[Len(batchQueue)].status = "pending"
    /\ batchQueue[Len(batchQueue)].url = batchQueue[1].url

\* C21: handleBatchProcess on an empty queue and handleRetryFailed on a
\* queue without error items return at their guard: the queue, the completed
\* counter and processingBatch are as they were and no worker is started.
C21_EmptySubmission ==
    [][(\/ lastOp'.op = "handleBatchProcess" /\ Len(batchQueue) = 0
        \/ lastOp'.op = "handleRetryFailed"
              /\ IdsWithStatus(batchQueue, "error") = {}) =>
           /\ lastOp'.ignored
           /\ UNCHANGED <<batchQueue, completedCount, processingBatch, pool,
                          starts, itemsToProcess, pendingItems, nextIdx>>
      ]_vars

\* handleRetryFailed was called, with no run going on, on a queue that holds
\* items but none in error.
C21_Witness ==
    /\ lastOp.op = "handleRetryFailed"
    /\ lastOp.ignored
    /\ ~processingBatch
    /\ Len(batchQueue) > 0
    /\ IdsWithStatus(batchQueue, "error") = {}

\* The status changes of C22; the reset of an error item and its admission
\* can happen in one task, which takes the item from error to processing.
StatusChanges ==
    { <<"pending", "processing">>, <<"processing", "completed">>,
      <<"processing", "error">>, <<"error", "pending">>,
      <<"error", "processing">> }

\* C22: every change of an item's status is pending to processing,
\* processing to completed, processing to error, or error to pending (and on
\* to processing); a completed item keeps its status.
C22_StateMachine ==
    [][\A i \in DOMAIN batchQueue, j \in DOMAIN batchQueue' :
          (/\ batchQueue[i].id = batchQueue'[j].id
           /\ batchQueue[i].status # batchQueue'[j].status) =>
              <<batchQueue[i].status, batchQueue'[j].status>> \in StatusChanges
      ]_vars

\* C23: when getPlaylistInfo resolves, every item of the queue is still in
\* the queue afterwards with all its fields as they were just before.
C23_StaleAppend ==
    [][lastOp'.op = "playlistResolved" =>
          \A k \in DOMAIN batchQueue :
              \E j \in DOMAIN batchQueue' : batchQueue'[j] = batchQueue[k]
      ]_vars

\* C24: while items of the run are not yet started, exactly CONCURRENCY
\* workers are running; and the step in which a worker returns starts the
\* worker of the next such item while the other workers go on.
C24_ContinuousAdmission ==
    /\ []((processingBatch /\ nextIdx <= Len(pendingItems)) =>
             Cardinality(DOMAIN pool) = CONCURRENCY)
    /\ [][(DOMAIN pool \ DOMAIN pool' # {} /\ nextIdx <= Len(pendingItems)) =>
              /\ pendingItems[nextIdx] \in DOMAIN pool' \ DOMAIN pool
              /\ pool'[pendingItems[nextIdx]].pc = "getVideoInfo"
              /\ nextIdx' = nextIdx + 1
              /\ Cardinality(DOMAIN pool \cap DOMAIN pool') = CONCURRENCY - 1
              /\ \A j \in DOMAIN pool \cap DOMAIN pool' : pool'[j] = pool[j]
         ]_vars

\* A worker has just returned and the fourth item of the run was admitted
\* while two of the first three are still running.
C24_Witness ==
    /\ lastOp.op = "downloadItem"
    /\ lastOp.toast \in {"success", "error"}
    /\ Len(pendingItems) > CONCURRENCY
    /\ nextIdx = Len(pendingItems) + 1
    /\ Cardinality(DOMAIN pool) = CONCURRENCY
    /\ pendingItems[Len(pendingItems)] \in DOMAIN pool
    /\ pool[pendingItems[Len(pendingItems)]].pc = "getVideoInfo"

\* C25: the items of a run are taken in queue order, and when an item of
\* the run enters processing, every item of the run that comes before it in
\* the queue has entered processing already (or does so in the same task).
C25_AdmissionOrder ==
    [][/\ (lastOp'.op \in SubmitHandlers /\ Accepted) =>
              \A a, b \in DOMAIN pendingItems' :
                  a < b =>
                      \E i, j \in DOMAIN batchQueue' :
                          /\ i < j
                          /\ batchQueue'[i].id = pendingItems'[a]
                          /\ batchQueue'[j].id = pendingItems'[b]
       /\ \A id \in DOMAIN pool' \ DOMAIN pool :
              \A i, j \in DOMAIN batchQueue' :
                  (/\ i < j
                   /\ batchQueue'[j].id = id
                   /\ batchQueue'[i].id \in Range(pendingItems')) =>
                      batchQueue'[i].status # "pending"
      ]_vars

\* The second of four submitted items returned first; the fourth item was
\* admitted then, after the first and the third, which are still running.
C25_Witness ==
    /\ Len(pendingItems) > CONCURRENCY
    /\ nextIdx > Len(pendingItems)
    /\ DOMAIN pool = {pendingItems[1], pendingItems[3], pendingItems[4]}
    /\ pool[pendingItems[4]].pc = "getVideoInfo"
    /\ HasStatus(pendingItems[2], {"completed", "error"})

\* C26: an item whose worker has just been started has status processing,
\* progress 0 and no errorMsg.
C26_AdmissionFields ==
    [][\A id \in DOMAIN pool' \ DOMAIN pool :
          \A k \in DOMAIN batchQueue' :
              batchQueue'[k].id = id =>
                  /\ batchQueue'[k].status = "processing"
                  /\ batchQueue'[k].progress = 0
                  /\ batchQueue'[k].errorMsg = Undefined
      ]_vars

\* C27: when getVideoInfo rejects for an item, the item's worker ends there
\* (downloadMedia is not called), the item is error with an errorMsg, its
\* title and progress are as before, and completedCount is as before.
C27_MetadataFailure ==
    [][\A id \in 1..MaxItems :
          GetVideoInfoFails(id) =>
              /\ id \notin DOMAIN pool'
              /\ completedCount' = completedCount
              /\ lastOp'.toast = "error"
              /\ \E k \in DOMAIN batchQueue : batchQueue[k].id = id
              /\ \A k \in DOMAIN batchQueue :
                    batchQueue[k].id = id =>
                        /\ batchQueue'[k].status = "error"
                        /\ batchQueue'[k].errorMsg # Undefined
                        /\ batchQueue'[k].title = batchQueue[k].title
                        /\ batchQueue'[k].progress = batchQueue[k].progress
      ]_vars

\* In the desktop app a worker has just ended in error and left an item
\* that is error with its errorMsg, progress 0 and no title.
C27_Witness ==
    /\ tauri
    /\ lastOp.op = "downloadItem"
    /\ lastOp.toast = "error"
    /\ \E k \in DOMAIN batchQueue :
          /\ batchQueue[k].status = "error"
          /\ batchQueue[k].errorMsg = ErrorMessage
          /\ batchQueue[k].title = Undefined
          /\ batchQueue[k].progress = 0
          /\ batchQueue[k].id \notin DOMAIN pool

\* C28: a step of a running worker never lowers its item's progress, and
\* the step in which the worker ends in error after downloadMedia was called
\* leaves the progress as it was.
C28_AcquireFailureProgress ==
    [][\A k \in DOMAIN batchQueue :
          (/\ batchQueue[k].id \in DOMAIN pool
           /\ k \in DOMAIN batchQueue'
           /\ batchQueue'[k].id = batchQueue[k].id) =>
              /\ batchQueue'[k].progress >= batchQueue[k].progress
              /\ (/\ batchQueue[k].id \notin DOMAIN pool'
                  /\ pool[batchQueue[k].id].pc # "getVideoInfo"
                  /\ batchQueue'[k].status = "error") =>
                     batchQueue'[k].progress = batchQueue[k].progress
      ]_vars

\* C29: a step of an item worker changes no item but the worker's own
\* (an item admitted in the same task gets its status from its own worker),
\* and keeps the queue's length and order; no step changes the url or the
\* type of an item.
C29_SingleWriter ==
    [][/\ lastOp'.op = "downloadItem" =>
              /\ Len(batchQueue') = Len(batchQueue)
              /\ \E id \in DOMAIN pool :
                    /\ id \notin DOMAIN pool' \/ pool'[id] # pool[id]
                    /\ \A j \in DOMAIN pool \ {id} :
                          j \in DOMAIN pool' /\ pool'[j] = pool[j]
                    /\ \A k \in DOMAIN batchQueue :
                          /\ batchQueue'[k].id = batchQueue[k].id
                          /\ batchQueue[k].id # id =>
                                \/ batchQueue'[k] = batchQueue[k]
                                \/ /\ batchQueue[k].id \in DOMAIN pool' \ DOMAIN pool
                                   /\ batchQueue'[k] =
                                         [batchQueue[k] EXCEPT !.status = "processing"]
       /\ \A i \in DOMAIN batchQueue, j \in DOMAIN batchQueue' :
              batchQueue[i].id = batchQueue'[j].id =>
                  /\ batchQueue'[j].url = batchQueue[i].url
                  /\ batchQueue'[j].type = batchQueue[i].type
      ]_vars

\* A worker has just reported progress while another item is being
\* processed, with progress 0, and a third is waiting.
C29_Witness ==
    /\ lastOp.op = "downloadItem"
    /\ lastOp.toast = "none"
    /\ \E a, b, c \in DOMAIN batchQueue :
          /\ batchQueue[a].status = "processing"
          /\ batchQueue[a].progress >= ProgressLoopFirst
          /\ batchQueue[b].status = "processing"
          /\ batchQueue[b].progress = 0
          /\ batchQueue[c].status = "pending"

\* C30: in every reachable state completedCount is between 0 and the length
\* of the queue, so totalProgress is between 0 and 100; and clearQueue, when
\* no submission is in flight, sets completedCount to 0.
C30_AggregateProgress ==
    /\ [](/\ 0 <= completedCount
          /\ completedCount <= Len(batchQueue)
          /\ TotalProgress \in 0..100)
    /\ [][(lastOp'.op = "clearQueue" /\ ~processingBatch) =>
              completedCount' = 0 /\ batchQueue' = <<>>]_vars

====
